---------------------------- MODULE Spec2Model ----------------------------
(***************************************************************************)
(* CCTP v2 transfer scripts (approve, burn, poll for attestation, mint):   *)
(*   base_to_starknet   src/transfer-base-to-starknet.js                   *)
(*   base_to_ethereum   src/unnamed/part_000                               *)
(*   solana_to_starknet src/unnamed/part_002                               *)
(* A JavaScript string is a sequence of one-character strings, a byte      *)
(* buffer a sequence of 0..255, and a BigInt the sequence of its hex       *)
(* digits (0..15) without leading zeros, most significant first.           *)
(***************************************************************************)
EXTENDS Integers, Sequences, FiniteSets, TLC

VARIABLES
  script,       \* which of the three scripts runs
  pc,           \* position of main() in the script
  started,      \* stages whose first statement has run, in order
  completed,    \* stages whose promise resolved, in order
  burnTx,       \* transaction identifier returned by the burn stage
  url,          \* key of the attestation requests: [domain, transactionHash]
  requests,     \* number of axios.get calls issued (counted up to MaxAttempts + 1)
  requestKeys,  \* keys of the requests issued so far
  responses,    \* outcomes of the first MaxAttempts requests
  sleeps,       \* delays of the timers set after the first MaxAttempts requests
  served,       \* payload bytes the attestation service encoded in the returned entry
  attestation,  \* value returned by retrieveAttestation
  mintArgs,     \* arguments handed to the destination chain's mint call
  exitCode,     \* <<code>> once the process has exited, <<>> before
  env,          \* process.env as the script reads it at load time
  request,      \* transfer parameters fixed at load time
  txs,          \* transactions submitted so far, in order, with their fate
  error,        \* where the error that ended the run was thrown
  queries,      \* getProgramAccounts calls of getRemoteTokenMessengerAccount
  remoteTokenMessenger,  \* endpoint whose account the lookup returned
  helper,       \* helper function under evaluation (helper specifications)
  arg,          \* its input
  result        \* <<its output>> once applied, <<>> before

vars == <<script, pc, started, completed, burnTx, url, requests, requestKeys,
          responses, sleeps, served, attestation, mintArgs, exitCode,
          env, request, txs, error, queries, remoteTokenMessenger,
          helper, arg, result>>

pipelineVars == <<script, pc, started, completed, burnTx, url, requests, requestKeys,
                  responses, sleeps, served, attestation, mintArgs, exitCode,
                  env, request, txs, error, queries, remoteTokenMessenger>>

helperVars == <<helper, arg, result>>

---------------------------------------------------------------------------
(* Bounds of the model *)

\* requests of one poll whose responses are recorded
MaxAttempts == 3
\* longest payload of the envelope helper's inputs, in bytes
MaxPayloadLen == 3
\* longest input of the calldata encoder, in bytes
MaxBytes == 63
\* most zero bytes at the start of each 31-byte chunk of an encoder input
MaxLeadingZeros == 2
\* longest recipient given to the bytes32 helpers, in hex digits
MaxHexDigits == 65
\* digit patterns of the addresses given to the bytes32 helpers
MaxSeed == 2

---------------------------------------------------------------------------
(* Program constants *)

BASE_DOMAIN == 6
ETHEREUM_DOMAIN == 0
SOLANA_DOMAIN == 5
STARKNET_DOMAIN == 25
\* setTimeout(resolve, 5000)
PollDelayMs == 5000
\* bytes packed in one felt (bytes31)
ChunkBytes == 31
\* padStart(64, "0")
Bytes32HexDigits == 64

Null == "null"
Undefined == "undefined"

---------------------------------------------------------------------------
(* Strings, bytes and numbers *)

Min(a, b) == IF a < b THEN a ELSE b

\* Array/String/Buffer.prototype.slice(from, to): 0-based, half open, clamped
Slice(s, from, to) ==
  LET lo == Min(from, Len(s))
      hi == Min(to, Len(s))
  IN  IF hi <= lo THEN <<>> ELSE [i \in 1..(hi - lo) |-> s[lo + i]]

SliceFrom(s, from) == Slice(s, from, Len(s))

Repeat(c, n) == [i \in 1..n |-> c]

StartsWith0x(str) == Len(str) >= 2 /\ str[1] = "0" /\ str[2] = "x"

HexAlphabet ==
  <<"0", "1", "2", "3", "4", "5", "6", "7", "8", "9", "a", "b", "c", "d", "e", "f">>

UpperHex == <<"A", "B", "C", "D", "E", "F">>

Base64Alphabet ==
  <<"A", "B", "C", "D", "E", "F", "G", "H", "I", "J", "K", "L", "M",
    "N", "O", "P", "Q", "R", "S", "T", "U", "V", "W", "X", "Y", "Z",
    "a", "b", "c", "d", "e", "f", "g", "h", "i", "j", "k", "l", "m",
    "n", "o", "p", "q", "r", "s", "t", "u", "v", "w", "x", "y", "z",
    "0", "1", "2", "3", "4", "5", "6", "7", "8", "9", "+", "/">>

\* character class [0-9a-fA-F]
IsHexChar(c) ==
  \/ \E i \in 1..16 : HexAlphabet[i] = c
  \/ \E i \in 1..6 : UpperHex[i] = c

\* value of a hex digit character
HexVal(c) ==
  IF \E i \in 1..16 : HexAlphabet[i] = c
  THEN (CHOOSE i \in 1..16 : HexAlphabet[i] = c) - 1
  ELSE (CHOOSE i \in 1..6 : UpperHex[i] = c) + 9

IsBase64Char(c) == \E i \in 1..64 : Base64Alphabet[i] = c

Base64Val(c) == (CHOOSE i \in 1..64 : Base64Alphabet[i] = c) - 1

\* Buffer.prototype.toString("hex"): two lowercase digits per byte
BufferToHex(bytes) ==
  [i \in 1..(2 * Len(bytes)) |->
     LET b == bytes[(i + 1) \div 2]
     IN  HexAlphabet[(IF i % 2 = 1 THEN b \div 16 ELSE b % 16) + 1]]

\* length of the longest prefix of str made of hex digits
RECURSIVE HexPrefixLen(_)
HexPrefixLen(str) ==
  IF str = <<>> \/ ~IsHexChar(Head(str)) THEN 0 ELSE 1 + HexPrefixLen(Tail(str))

\* bytes of an even-length string of hex digits
PairsToBytes(digits) ==
  [i \in 1..(Len(digits) \div 2) |->
     16 * HexVal(digits[2 * i - 1]) + HexVal(digits[2 * i])]

\* Buffer.from(str, "hex"): whole pairs of hex digits up to the first
\* character that is none; a trailing single digit is dropped
BufferFromHex(str) ==
  LET n == HexPrefixLen(str)
  IN  PairsToBytes(Slice(str, 0, n - (n % 2)))

\* Buffer.from(str, "base64"): characters outside the alphabet (the "="
\* padding among them) are skipped, every 4 characters give 3 bytes, a
\* remainder of 2 or 3 characters gives 1 or 2 bytes
Base64Sextets(str) ==
  LET keep == SelectSeq(str, IsBase64Char)
  IN  [i \in 1..Len(keep) |-> Base64Val(keep[i])]

BufferFromBase64(str) ==
  LET v == Base64Sextets(str)
      n == (Len(v) \div 4) * 3
           + (IF Len(v) % 4 = 2 THEN 1 ELSE IF Len(v) % 4 = 3 THEN 2 ELSE 0)
      At(k) == IF k <= Len(v) THEN v[k] ELSE 0
  IN  [i \in 1..n |->
         LET g == 4 * ((i - 1) \div 3)
             j == (i - 1) % 3
         IN  IF j = 0 THEN At(g + 1) * 4 + At(g + 2) \div 16
             ELSE IF j = 1 THEN (At(g + 2) % 16) * 16 + At(g + 3) \div 4
             ELSE (At(g + 3) % 4) * 64 + At(g + 4)]

\* a call that throws, and one that returns bytes
Thrown == [ok |-> FALSE, bytes |-> <<>>]

Returned(bytes) == [ok |-> TRUE, bytes |-> bytes]

\* viem hexToBytes(hex): drops the first two characters, left-pads an odd
\* number of digits with "0", and throws on a character that is no hex digit
hexToBytes(str) ==
  LET hexString == SliceFrom(str, 2)
      padded == IF Len(hexString) % 2 = 1 THEN <<"0">> \o hexString ELSE hexString
  IN  IF \A i \in 1..Len(padded) : IsHexChar(padded[i])
      THEN Returned(PairsToBytes(padded))
      ELSE Thrown

---------------------------------------------------------------------------
(* Shared encoding helpers *)

\* /^[0-9a-fA-F]+$/.test(str)
AllHexDigits(str) == Len(str) >= 1 /\ \A i \in 1..Len(str) : IsHexChar(str[i])

\* isHex of decodeEnvelope
isHex(str) == StartsWith0x(str) \/ AllHexDigits(str)

\* str.replace(/^0x/, "")
Strip0x(str) == IF StartsWith0x(str) THEN SliceFrom(str, 2) ELSE str

\* decodeEnvelope of transfer-base-to-starknet.js (viem's hexToBytes)
decodeEnvelopeBase(str) ==
  IF isHex(str) THEN hexToBytes(str) ELSE Returned(BufferFromBase64(str))

\* decodeEnvelope of the Solana script (Buffer.from(..., "hex"))
decodeEnvelopeSolana(str) ==
  IF isHex(str) THEN Returned(BufferFromHex(Strip0x(str)))
  ELSE Returned(BufferFromBase64(str))

\* BigInt("0x" + digits): the number, as its hex digits without leading zeros
RECURSIVE StripLeadingZeros(_)
StripLeadingZeros(digits) ==
  IF digits # <<>> /\ Head(digits) = 0 THEN StripLeadingZeros(Tail(digits)) ELSE digits

BigIntFromHex(str) == StripLeadingZeros([i \in 1..Len(str) |-> HexVal(str[i])])

\* BigInt(n) of a small non-negative number
RECURSIVE BigIntOf(_)
BigIntOf(n) == IF n = 0 THEN <<>> ELSE Append(BigIntOf(n \div 16), n % 16)

\* bytesToFelt: a chunk of at most 31 bytes as one field element
bytesToFelt(chunk) ==
  IF Len(chunk) > ChunkBytes THEN [ok |-> FALSE, felt |-> <<>>]
  ELSE LET hex == BufferToHex(chunk)
       IN  [ok |-> TRUE, felt |-> BigIntFromHex(IF hex = <<>> THEN <<"0">> ELSE hex)]

\* a loop that slices one byte short: bytes.slice(i * 31, (i + 1) * 31 - 1)
FullChunkOneShort(bytes, i) == Slice(bytes, i * ChunkBytes, (i + 1) * ChunkBytes - 1)

\* the full chunks of bytesToByteArrayCalldata's loop
FullChunk(bytes, i) == Slice(bytes, i * ChunkBytes, (i + 1) * ChunkBytes)

\* the trailing chunk of bytesToByteArrayCalldata
PendingWord(bytes) == SliceFrom(bytes, (Len(bytes) \div ChunkBytes) * ChunkBytes)

\* bytesToByteArrayCalldata: [data.length, ...data, pending_word, pending_word_len]
bytesToByteArrayCalldata(bytes) ==
  LET fullChunks == Len(bytes) \div ChunkBytes
      dataFelts == [i \in 1..fullChunks |-> bytesToFelt(FullChunk(bytes, i - 1))]
      pending == PendingWord(bytes)
      pendingFelt == bytesToFelt(pending)
  IN  IF pendingFelt.ok /\ \A i \in 1..fullChunks : dataFelts[i].ok
      THEN [ok |-> TRUE,
            calldata |-> <<BigIntOf(Len(dataFelts))>>
                         \o [i \in 1..fullChunks |-> dataFelts[i].felt]
                         \o <<pendingFelt.felt, BigIntOf(Len(pending))>>]
      ELSE [ok |-> FALSE, calldata |-> <<>>]

\* String.prototype.padStart(n, "0")
PadStart(str, n) == IF Len(str) >= n THEN str ELSE Repeat("0", n - Len(str)) \o str

\* toBytes32Address of the Base -> Ethereum script
toBytes32Address(address) == <<"0", "x">> \o Repeat("0", 24) \o SliceFrom(address, 2)

\* padding on the wrong side: clean.padEnd(64, "0")
toBytes32PadEnd(hex) ==
  LET clean == IF StartsWith0x(hex) THEN SliceFrom(hex, 2) ELSE hex
  IN  <<"0", "x">> \o clean
      \o (IF Len(clean) >= Bytes32HexDigits THEN <<>>
          ELSE Repeat("0", Bytes32HexDigits - Len(clean)))

\* toBytes32 of transfer-base-to-starknet.js
toBytes32(hex) ==
  LET clean == IF StartsWith0x(hex) THEN SliceFrom(hex, 2) ELSE hex
  IN  <<"0", "x">> \o PadStart(clean, Bytes32HexDigits)

\* starknetAddressToBase58Pubkey of the Solana script: the bytes handed to
\* new PublicKey(...)
starknetAddressToBase58Pubkey(addr) ==
  LET hex == IF StartsWith0x(addr) THEN SliceFrom(addr, 2) ELSE addr
      padded == PadStart(hex, Bytes32HexDigits)
  IN  BufferFromHex(padded)

---------------------------------------------------------------------------
(* The attestation service's side of the encodings, and the inputs of the  *)
(* helper specifications                                                   *)

UpperCase(str) ==
  [i \in 1..Len(str) |->
     IF \E k \in 11..16 : HexAlphabet[k] = str[i]
     THEN UpperHex[(CHOOSE k \in 11..16 : HexAlphabet[k] = str[i]) - 10]
     ELSE str[i]]

\* hex encoding of a payload, with or without the 0x prefix, in either case
ToHex(bytes, prefix, upper) ==
  (IF prefix THEN <<"0", "x">> ELSE <<>>)
  \o (IF upper THEN UpperCase(BufferToHex(bytes)) ELSE BufferToHex(bytes))

\* standard base64 encoding of a payload, "=" padded
ToBase64(bytes) ==
  LET n == Len(bytes)
      At(k) == IF k <= n THEN bytes[k] ELSE 0
  IN  [i \in 1..(4 * ((n + 2) \div 3)) |->
         LET g == 3 * ((i - 1) \div 4)
             j == (i - 1) % 4
         IN  IF j = 0 THEN Base64Alphabet[At(g + 1) \div 4 + 1]
             ELSE IF j = 1
               THEN Base64Alphabet[(At(g + 1) % 4) * 16 + At(g + 2) \div 16 + 1]
             ELSE IF j = 2
               THEN IF g + 2 > n THEN "="
                    ELSE Base64Alphabet[(At(g + 2) % 16) * 4 + At(g + 3) \div 64 + 1]
             ELSE IF g + 3 > n THEN "=" ELSE Base64Alphabet[(At(g + 3) % 64) + 1]]

\* byte values of the envelope payloads: 0x69 0xb7 0x1d is "abcd" in base64,
\* 0x00 0x00 0x00 is "AAAA" and 0xd3 0x1f is "0x8="
PayloadBytes == {0, 29, 31, 105, 183, 211, 255}

RECURSIVE SeqsUpTo(_, _)
SeqsUpTo(S, n) ==
  IF n = 0 THEN {<<>>}
  ELSE LET shorter == SeqsUpTo(S, n - 1)
       IN  shorter \cup {Append(q, x) : q \in {r \in shorter : Len(r) = n - 1}, x \in S}

Payloads == SeqsUpTo(PayloadBytes, MaxPayloadLen)

\* an input of the calldata encoder: n bytes, the first `zeros` bytes of
\* every 31-byte chunk zero, the others zero (allZero) or varied and non-zero
GenBytes(n, zeros, allZero) ==
  [i \in 1..n |->
     IF allZero \/ (i - 1) % ChunkBytes < zeros THEN 0
     ELSE ((i * 37 + zeros) % 255) + 1]

CalldataInputs ==
  {GenBytes(n, z, a) : n \in 0..MaxBytes, z \in 0..MaxLeadingZeros, a \in BOOLEAN}

\* n hex digits, varied by seed
GenDigits(n, seed, upper) ==
  LET lower == [i \in 1..n |-> HexAlphabet[((i * 7 + seed * 5 + i \div 3) % 16) + 1]]
  IN  IF upper THEN UpperCase(lower) ELSE lower

\* valid 20-byte EVM addresses: 0x and 40 hex digits
EvmAddresses ==
  {<<"0", "x">> \o GenDigits(40, seed, upper) : seed \in 0..MaxSeed, upper \in BOOLEAN}

\* recipients (Starknet addresses) in hex, with or without the 0x prefix
Recipients ==
  {(IF prefix THEN <<"0", "x">> ELSE <<>>) \o GenDigits(n, seed, FALSE) :
     n \in 0..MaxHexDigits, seed \in 0..MaxSeed, prefix \in BOOLEAN}

---------------------------------------------------------------------------
(* Helper specifications: a helper applied once to an input of its domain  *)

NoEntry == [status |-> Undefined, message |-> <<>>, attestation |-> <<>>]
NoPayload == [message |-> <<>>, attestation |-> <<>>]
NoUrl == [domain |-> -1, transactionHash |-> Null]
NoMint == [kind |-> Null, message |-> <<>>, attestation |-> <<>>, calldata |-> <<>>]
NoEnv == [PRIVATE_KEY |-> <<>>, STARKNET_RPC |-> <<>>, STARKNET_ACCOUNT_ADDRESS |-> <<>>,
          STARKNET_PRIVATE_KEY |-> <<>>, SOLANA_RPC |-> <<>>,
          SOLANA_PRIVATE_KEY_B58 |-> <<>>, AMOUNT |-> <<>>, MAX_FEE |-> <<>>,
          MIN_FINALITY_THRESHOLD |-> <<>>]
NoRequest == [amount |-> -1, maxFee |-> -1, minFinalityThreshold |-> -1]

\* no script runs
PipelineIdle ==
  /\ script = Null
  /\ pc = "idle"
  /\ started = <<>>
  /\ completed = <<>>
  /\ burnTx = Null
  /\ url = NoUrl
  /\ requests = 0
  /\ requestKeys = {}
  /\ responses = <<>>
  /\ sleeps = <<>>
  /\ served = NoPayload
  /\ attestation = NoEntry
  /\ mintArgs = NoMint
  /\ exitCode = <<>>
  /\ env = NoEnv
  /\ request = NoRequest
  /\ txs = <<>>
  /\ error = Null
  /\ queries = <<>>
  /\ remoteTokenMessenger = <<>>

InitCalldata ==
  /\ PipelineIdle
  /\ helper \in {"bytesToByteArrayCalldata", "bytesToFelt"}
  /\ arg \in CalldataInputs
  /\ result = <<>>

ApplyBytesToByteArrayCalldata ==
  /\ helper = "bytesToByteArrayCalldata"
  /\ result = <<>>
  /\ result' = <<bytesToByteArrayCalldata(arg)>>
  /\ UNCHANGED <<pipelineVars, helper, arg>>

ApplyBytesToFelt ==
  /\ helper = "bytesToFelt"
  /\ result = <<>>
  /\ result' = <<bytesToFelt(arg)>>
  /\ UNCHANGED <<pipelineVars, helper, arg>>

NextCalldata == ApplyBytesToByteArrayCalldata \/ ApplyBytesToFelt

SpecCalldata == InitCalldata /\ [][NextCalldata]_vars

InitEnvelope ==
  /\ PipelineIdle
  /\ helper \in {"decodeEnvelopeBase", "decodeEnvelopeSolana"}
  /\ arg \in [payload : Payloads, prefix : BOOLEAN, upper : BOOLEAN]
  /\ result = <<>>

\* the same payload decoded from its hex and from its base64 encoding
ApplyDecodeEnvelopeBase ==
  /\ helper = "decodeEnvelopeBase"
  /\ result = <<>>
  /\ result' = <<[hex |-> decodeEnvelopeBase(ToHex(arg.payload, arg.prefix, arg.upper)),
                  base64 |-> decodeEnvelopeBase(ToBase64(arg.payload))]>>
  /\ UNCHANGED <<pipelineVars, helper, arg>>

ApplyDecodeEnvelopeSolana ==
  /\ helper = "decodeEnvelopeSolana"
  /\ result = <<>>
  /\ result' = <<[hex |-> decodeEnvelopeSolana(ToHex(arg.payload, arg.prefix, arg.upper)),
                  base64 |-> decodeEnvelopeSolana(ToBase64(arg.payload))]>>
  /\ UNCHANGED <<pipelineVars, helper, arg>>

NextEnvelope == ApplyDecodeEnvelopeBase \/ ApplyDecodeEnvelopeSolana

SpecEnvelope == InitEnvelope /\ [][NextEnvelope]_vars

InitBytes32 ==
  /\ PipelineIdle
  /\ \/ helper = "toBytes32Address" /\ arg \in EvmAddresses
     \/ helper \in {"toBytes32", "starknetAddressToBase58Pubkey"}
        /\ arg \in Recipients \cup EvmAddresses
  /\ result = <<>>

ApplyToBytes32Address ==
  /\ helper = "toBytes32Address"
  /\ result = <<>>
  /\ result' = <<toBytes32Address(arg)>>
  /\ UNCHANGED <<pipelineVars, helper, arg>>

ApplyToBytes32 ==
  /\ helper = "toBytes32"
  /\ result = <<>>
  /\ result' = <<toBytes32(arg)>>
  /\ UNCHANGED <<pipelineVars, helper, arg>>

ApplyStarknetAddressToBase58Pubkey ==
  /\ helper = "starknetAddressToBase58Pubkey"
  /\ result = <<>>
  /\ result' = <<starknetAddressToBase58Pubkey(arg)>>
  /\ UNCHANGED <<pipelineVars, helper, arg>>

NextBytes32 ==
  ApplyToBytes32Address \/ ApplyToBytes32 \/ ApplyStarknetAddressToBase58Pubkey

SpecBytes32 == InitBytes32 /\ [][NextBytes32]_vars

---------------------------------------------------------------------------
(* The scripts *)

Scripts == {"base_to_starknet", "base_to_ethereum", "solana_to_starknet"}

BaseSource == {"base_to_starknet", "base_to_ethereum"}

StarknetDestination == {"base_to_starknet", "solana_to_starknet"}

\* transaction identifiers (hashes, signatures) a burn may return
TxIds == {"0xAA", "0xBB"}

\* the domain in the script's attestation URL
SourceDomain(s) == IF s = "solana_to_starknet" THEN SOLANA_DOMAIN ELSE BASE_DOMAIN

\* the domain with the destination's number in the URL
PollUrlOfDestination(s, srcTxHash) ==
  [domain |-> IF s = "base_to_ethereum" THEN ETHEREUM_DOMAIN ELSE STARKNET_DOMAIN,
   transactionHash |-> srcTxHash]

\* url of retrieveAttestation: /v2/messages/{domain}?transactionHash={srcTxHash}
PollUrl(s, srcTxHash) == [domain |-> SourceDomain(s), transactionHash |-> srcTxHash]

\* what the attestation service holds for a message: the payload bytes and
\* the form it sends them in, "hex0x", "hex" or "base64"
Encode(bytes, form) ==
  IF form = "base64" THEN ToBase64(bytes) ELSE ToHex(bytes, form = "hex0x", FALSE)

LongMessage == GenBytes(33, 1, FALSE)

\* complete entries: 0x00 0x00 0x00 is "AAAA" in base64, 0xd3 0x1f is "0x8="
CompleteEntries ==
  {[status |-> "complete", message |-> <<0, 0, 0>>, attestation |-> <<183, 29, 0, 1>>,
    form |-> "hex0x"],
   [status |-> "complete", message |-> LongMessage, attestation |-> <<183, 29, 0, 1>>,
    form |-> "hex"],
   [status |-> "complete", message |-> <<0, 0, 0>>, attestation |-> <<183, 29, 0, 1>>,
    form |-> "base64"],
   [status |-> "complete", message |-> LongMessage, attestation |-> <<211, 31>>,
    form |-> "base64"]}

SomeComplete == [status |-> "complete", message |-> LongMessage,
                 attestation |-> <<183, 29, 0, 1>>, form |-> "hex0x"]

PendingEntry == [status |-> "pending", message |-> <<>>, attestation |-> <<>>,
                 form |-> "pending"]

\* what one request can meet: a network failure, a non-2xx response, a body
\* without a first message (malformed, or an empty list), and bodies with a
\* list of messages
ServiceAnswers ==
  {[kind |-> k, messages |-> <<>>] : k \in {"network_error", "http_error", "malformed"}}
  \cup {[kind |-> "ok", messages |-> <<PendingEntry>>]}
  \cup {[kind |-> "ok", messages |-> <<PendingEntry, SomeComplete>>]}
  \cup {[kind |-> "ok", messages |-> <<e>>] : e \in CompleteEntries}
  \cup {[kind |-> "ok", messages |-> <<SomeComplete, PendingEntry>>]}

\* a message entry as it stands in the response body
RenderEntry(e) ==
  IF e.form = "pending"
  THEN [status |-> e.status, message |-> <<"0", "x">>,
        attestation |-> <<"P", "E", "N", "D", "I", "N", "G">>]
  ELSE [status |-> e.status, message |-> Encode(e.message, e.form),
        attestation |-> Encode(e.attestation, e.form)]

\* the outcome of axios.get(url) for an answer of the service
Render(answer) ==
  [kind |-> answer.kind,
   messages |-> [i \in 1..Len(answer.messages) |-> RenderEntry(answer.messages[i])]]

\* response.data?.messages?.[0]  (undefined when any link is missing)
FirstMessage(response) ==
  IF response.kind = "ok" /\ Len(response.messages) >= 1 THEN response.messages[1]
  ELSE NoEntry

\* the answers the n-th request can meet: past the recorded attempts the
\* model follows the runs in which the service stays short of complete
AnswersTo(n) ==
  IF n <= MaxAttempts THEN ServiceAnswers
  ELSE {a \in ServiceAnswers : FirstMessage(Render(a)).status # "complete"}

\* a check of any entry instead of the first: messages.some(m => m.status === "complete")
IsCompleteAnyEntry(response) ==
  /\ response.kind = "ok"
  /\ \E i \in 1..Len(response.messages) : response.messages[i].status = "complete"

\* axios.get resolved and response.data?.messages?.[0]?.status === "complete"
IsComplete(response) ==
  /\ response.kind \notin {"network_error", "http_error"}
  /\ FirstMessage(response).status = "complete"

---------------------------------------------------------------------------
(* Configuration: process.env as the scripts read it when they are loaded  *)

\* an environment variable: <<>> when it is not defined, <<string>> when it is
Unset == <<>>

Defined(str) == <<str>>

\* !value: undefined and "" are falsy
Falsy(v) == v = <<>> \/ v[1] = <<>>

DecimalDigits == <<"0", "1", "2", "3", "4", "5", "6", "7", "8", "9">>

IsDecimalDigit(c) == \E i \in 1..Len(DecimalDigits) : DecimalDigits[i] = c

DecimalVal(c) == (CHOOSE i \in 1..Len(DecimalDigits) : DecimalDigits[i] = c) - 1

RECURSIVE DecimalValue(_)
DecimalValue(str) ==
  IF str = <<>> THEN 0
  ELSE 10 * DecimalValue(SubSeq(str, 1, Len(str) - 1)) + DecimalVal(str[Len(str)])

IsDecimal(str) == \A i \in 1..Len(str) : IsDecimalDigit(str[i])

\* BigInt(process.env.X || fallback): the fallback when the variable is falsy,
\* a SyntaxError when its value is not an integer literal
EnvBigInt(v, fallback) ==
  IF Falsy(v) THEN [ok |-> TRUE, value |-> fallback]
  ELSE IF IsDecimal(v[1]) THEN [ok |-> TRUE, value |-> DecimalValue(v[1])]
  ELSE [ok |-> FALSE, value |-> -1]

\* Number(process.env.X || fallback); NaN is written -1
EnvNumber(v, fallback) ==
  IF Falsy(v) THEN fallback
  ELSE IF IsDecimal(v[1]) THEN DecimalValue(v[1])
  ELSE -1

\* AMOUNT, maxFee and minFinalityThreshold of the two Base scripts
BaseRequest(s) ==
  [amount |-> IF s = "base_to_ethereum" THEN 100000 ELSE 10000,
   maxFee |-> 500,
   minFinalityThreshold |-> 1000]

\* AMOUNT, MAX_FEE and MIN_FINALITY_THRESHOLD of the Solana script
SolanaRequest(e) ==
  [amount |-> EnvBigInt(e.AMOUNT, 10000).value,
   maxFee |-> EnvBigInt(e.MAX_FEE, 500).value,
   minFinalityThreshold |-> EnvNumber(e.MIN_FINALITY_THRESHOLD, 1000)]

TransferRequest(s, e) ==
  IF s = "solana_to_starknet" THEN SolanaRequest(e) ELSE BaseRequest(s)

\* the module's top-level statements run without a throw
ConfigLoads(s, e) ==
  CASE s = "base_to_ethereum" -> ~Falsy(e.PRIVATE_KEY)
    [] s = "base_to_starknet" ->
         /\ ~Falsy(e.PRIVATE_KEY)
         /\ ~(Falsy(e.STARKNET_ACCOUNT_ADDRESS) \/ Falsy(e.STARKNET_PRIVATE_KEY))
    [] s = "solana_to_starknet" ->
         /\ ~Falsy(e.SOLANA_PRIVATE_KEY_B58)
         /\ ~(Falsy(e.STARKNET_RPC) \/ Falsy(e.STARKNET_ACCOUNT_ADDRESS)
              \/ Falsy(e.STARKNET_PRIVATE_KEY))
         /\ EnvBigInt(e.AMOUNT, 10000).ok
         /\ EnvBigInt(e.MAX_FEE, 500).ok

\* stands for "https://api.devnet.solana.com"
PublicDevnet == <<"d", "e", "v", "n", "e", "t">>

\* stands for the address of another RPC endpoint
OwnRpc == <<"o", "w", "n">>

\* process.env.SOLANA_RPC || "https://api.devnet.solana.com"
SOLANA_RPC(e) == IF Falsy(e.SOLANA_RPC) THEN PublicDevnet ELSE e.SOLANA_RPC[1]

\* a lookup that asks the public endpoint first
CandidatesPublicFirst(e) ==
  IF SOLANA_RPC(e) = PublicDevnet THEN <<SOLANA_RPC(e)>>
  ELSE <<PublicDevnet, SOLANA_RPC(e)>>

\* candidates of getRemoteTokenMessengerAccount: [connection, ...fallback]
Candidates(e) ==
  IF SOLANA_RPC(e) = PublicDevnet THEN <<SOLANA_RPC(e)>>
  ELSE <<SOLANA_RPC(e), PublicDevnet>>

\* a credential or an address given in .env
Value == <<"s", "e", "t">>

\* a variable is not defined, is defined empty, or has a value
Presence == {Unset, Defined(<<>>), Defined(Value)}

\* none of SOLANA_RPC, AMOUNT, MAX_FEE and MIN_FINALITY_THRESHOLD is set
NoOverrides == [rpc |-> Unset, amount |-> Unset, fee |-> Unset, threshold |-> Unset]

\* settings of SOLANA_RPC, AMOUNT, MAX_FEE and MIN_FINALITY_THRESHOLD
SolanaOverrides ==
  {NoOverrides,
   [rpc |-> Defined(OwnRpc), amount |-> Defined(<<"2", "0", "0", "0", "0">>),
    fee |-> Defined(<<"7", "0", "0">>), threshold |-> Defined(<<"2", "0", "0", "0">>)],
   [rpc |-> Defined(PublicDevnet), amount |-> Defined(<<"1", "0", "0">>), fee |-> Unset,
    threshold |-> Defined(<<"1", "5", "0", "0">>)],
   [rpc |-> Unset, amount |-> Defined(<<"1", "e", "4">>), fee |-> Unset,
    threshold |-> Unset]}

\* the environment of the Solana script for its credentials and overrides
SolanaEnv(k, r, a, sk, o) ==
  [NoEnv EXCEPT !.SOLANA_PRIVATE_KEY_B58 = k, !.STARKNET_RPC = r,
                !.STARKNET_ACCOUNT_ADDRESS = a, !.STARKNET_PRIVATE_KEY = sk,
                !.SOLANA_RPC = o.rpc, !.AMOUNT = o.amount, !.MAX_FEE = o.fee,
                !.MIN_FINALITY_THRESHOLD = o.threshold]

\* the environments a script is started in: each required setting is not
\* defined, empty or set, and the optional ones are left alone
Envs(s) ==
  CASE s = "base_to_ethereum" ->
         {[NoEnv EXCEPT !.PRIVATE_KEY = k] : k \in Presence}
    [] s = "base_to_starknet" ->
         {[NoEnv EXCEPT !.PRIVATE_KEY = k, !.STARKNET_RPC = r,
                        !.STARKNET_ACCOUNT_ADDRESS = a, !.STARKNET_PRIVATE_KEY = sk] :
            k \in Presence, r \in {Unset, Defined(OwnRpc)}, a \in Presence,
            sk \in Presence}
    [] s = "solana_to_starknet" ->
         {SolanaEnv(k, r, a, sk, NoOverrides) :
            k \in Presence, r \in Presence, a \in Presence, sk \in Presence}

\* the environments of the Solana script with its credentials set and the
\* optional settings overridden
OverrideEnvs ==
  {SolanaEnv(Defined(Value), Defined(OwnRpc), Defined(Value), Defined(Value), o) :
     o \in SolanaOverrides}

\* nothing has run yet
Loading ==
  /\ pc = "load"
  /\ started = <<>>
  /\ completed = <<>>
  /\ burnTx = Null
  /\ url = NoUrl
  /\ requests = 0
  /\ requestKeys = {}
  /\ responses = <<>>
  /\ sleeps = <<>>
  /\ served = NoPayload
  /\ attestation = NoEntry
  /\ mintArgs = NoMint
  /\ exitCode = <<>>
  /\ request = NoRequest
  /\ txs = <<>>
  /\ error = Null
  /\ queries = <<>>
  /\ remoteTokenMessenger = <<>>
  /\ helper = Null
  /\ arg = <<>>
  /\ result = <<>>

\* one of the three scripts is started
Init ==
  /\ script \in Scripts
  /\ env \in Envs(script)
  /\ Loading

\* the Solana script is started with overrides
InitOverrides ==
  /\ script = "solana_to_starknet"
  /\ env \in OverrideEnvs
  /\ Loading

pollVars == <<url, requests, requestKeys, responses, sleeps, served, attestation>>

\* what the run was started with and what the account lookup found
lookupVars == <<env, request, queries, remoteTokenMessenger>>

\* a transaction handed to a chain's client
Tx(stage, req) == [stage |-> stage, status |-> "submitted", request |-> req]

\* how many transactions of a stage were submitted
Submitted(log, stage) == Cardinality({i \in 1..Len(log) : log[i].stage = stage})

\* the fate of the transaction submitted last
Settle(log, status) == [log EXCEPT ![Len(log)].status = status]

\* a catch handler that logs the error and lets the process end by itself
ExitWithoutCode == pc' = "failed" /\ exitCode' = <<0>>

\* main().catch: console.error(err); process.exit(1)
Exit1 == pc' = "failed" /\ exitCode' = <<1>>

\* an error thrown in a stage rejects main()
Fail(stage) == error' = stage /\ Exit1

\* the script's top-level statements: the environment is read and checked and
\* the transfer parameters are set; a throw here ends the process with code 1
LoadConfig ==
  /\ pc = "load"
  /\ IF ConfigLoads(script, env)
     THEN /\ request' = TransferRequest(script, env)
          /\ pc' = "main"
          /\ UNCHANGED <<error, exitCode>>
     ELSE /\ error' = "config"
          /\ pc' = "failed"
          /\ exitCode' = <<1>>
          /\ UNCHANGED request
  /\ UNCHANGED <<script, started, completed, burnTx, pollVars, mintArgs, env, txs,
                 queries, remoteTokenMessenger, helperVars>>

\* main, Solana script: getIdls() before the burn
GetIdls ==
  /\ pc = "main" /\ script = "solana_to_starknet"
  /\ \E ok \in BOOLEAN :
       IF ok THEN pc' = "burn" /\ UNCHANGED <<exitCode, error>> ELSE Fail("idl")
  /\ UNCHANGED <<script, started, completed, burnTx, pollVars, mintArgs, txs,
                 lookupVars, helperVars>>

\* approveUSDC, up to the submission of the approval
ApproveUSDC ==
  /\ pc = "main" /\ script \in BaseSource
  /\ started' = Append(started, "approve")
  /\ txs' = Append(txs, Tx("approve", NoRequest))
  /\ pc' = "approve_sent"
  /\ UNCHANGED <<script, completed, burnTx, pollVars, mintArgs, exitCode, error,
                 lookupVars, helperVars>>

\* a run that goes on to the burn whatever became of the approval
ApproveSettledIgnoringFailure ==
  /\ pc = "approve_sent"
  /\ \E ok \in BOOLEAN :
       /\ completed' = IF ok THEN Append(completed, "approve") ELSE completed
       /\ txs' = Settle(txs, IF ok THEN "accepted" ELSE "rejected")
       /\ pc' = "burn"
  /\ UNCHANGED <<script, started, burnTx, pollVars, mintArgs, exitCode, error,
                 lookupVars, helperVars>>

\* await baseClient.sendTransaction(approve) settles
ApproveSettled ==
  /\ pc = "approve_sent"
  /\ \E ok \in BOOLEAN :
       IF ok
       THEN /\ completed' = Append(completed, "approve")
            /\ txs' = Settle(txs, "accepted")
            /\ pc' = "burn"
            /\ UNCHANGED <<exitCode, error>>
       ELSE /\ txs' = Settle(txs, "rejected")
            /\ Fail("approve")
            /\ UNCHANGED completed
  /\ UNCHANGED <<script, started, burnTx, pollVars, mintArgs, lookupVars, helperVars>>

\* burnUSDC, up to the submission of depositForBurn with its arguments
BurnUSDC ==
  /\ pc = "burn" /\ script \in BaseSource
  /\ started' = Append(started, "burn")
  /\ txs' = Append(txs, Tx("burn", BaseRequest(script)))
  /\ pc' = "burn_sent"
  /\ UNCHANGED <<script, completed, burnTx, pollVars, mintArgs, exitCode, error,
                 lookupVars, helperVars>>

\* depositForBurnOnSolana, up to the call of getRemoteTokenMessengerAccount:
\* the token account is read and checked
DepositForBurnOnSolana ==
  /\ pc = "burn" /\ script = "solana_to_starknet"
  /\ started' = Append(started, "burn")
  /\ \E ok \in BOOLEAN :
       IF ok THEN pc' = "burn_lookup" /\ UNCHANGED <<exitCode, error>>
       ELSE Fail("burn")
  /\ UNCHANGED <<script, completed, burnTx, pollVars, mintArgs, txs, lookupVars,
                 helperVars>>

\* what a getProgramAccounts call and the decoding of its first account come
\* to: the call rejects, the list is empty, the first account does not
\* decode, or it does
QueryOutcomes == {"rejects", "empty", "undecodable", "account"}

\* getRemoteTokenMessengerAccount: one pass of the loop over the candidates
GetRemoteTokenMessengerAccount ==
  /\ pc = "burn_lookup"
  /\ Len(queries) < Len(Candidates(env))
  /\ LET conn == Candidates(env)[Len(queries) + 1]
     IN  \E outcome \in QueryOutcomes :
           /\ queries' = Append(queries, [endpoint |-> conn, outcome |-> outcome])
           /\ IF outcome = "account"
              THEN /\ remoteTokenMessenger' = <<conn>>
                   /\ pc' = "burn_build"
              ELSE UNCHANGED <<remoteTokenMessenger, pc>>
  /\ UNCHANGED <<script, started, completed, burnTx, pollVars, mintArgs, exitCode,
                 env, request, txs, error, helperVars>>

\* getRemoteTokenMessengerAccount: no candidate is left, the lookup throws
RemoteTokenMessengerNotFound ==
  /\ pc = "burn_lookup"
  /\ Len(queries) = Len(Candidates(env))
  /\ Fail("burn")
  /\ UNCHANGED <<script, started, completed, burnTx, pollVars, mintArgs, txs,
                 lookupVars, helperVars>>

\* depositForBurnOnSolana after the lookup: the instruction is encoded from
\* AMOUNT, MAX_FEE and MIN_FINALITY_THRESHOLD, the account list is built and
\* the transaction goes to provider.sendAndConfirm; no deposit_for_burn in
\* the IDL or an account without a mapping throws
SendDepositForBurn ==
  /\ pc = "burn_build"
  /\ \E ok \in BOOLEAN :
       IF ok
       THEN /\ txs' = Append(txs, Tx("burn", request))
            /\ pc' = "burn_sent"
            /\ UNCHANGED <<exitCode, error>>
       ELSE Fail("burn") /\ UNCHANGED txs
  /\ UNCHANGED <<script, started, completed, burnTx, pollVars, mintArgs, lookupVars,
                 helperVars>>

\* a burn that is submitted once more when the chain rejects it
BurnSettledRetrying ==
  /\ pc = "burn_sent"
  /\ \/ \E tx \in TxIds :
          /\ burnTx' = tx
          /\ completed' = Append(completed, "burn")
          /\ txs' = Settle(txs, IF script \in BaseSource THEN "accepted" ELSE "confirmed")
          /\ pc' = "poll"
          /\ UNCHANGED <<exitCode, error>>
     \/ IF Submitted(txs, "burn") < 2
        THEN /\ txs' = Append(Settle(txs, "rejected"), Tx("burn", txs[Len(txs)].request))
             /\ UNCHANGED <<pc, burnTx, completed, exitCode, error>>
        ELSE /\ txs' = Settle(txs, "rejected")
             /\ Fail("burn")
             /\ UNCHANGED <<burnTx, completed>>
  /\ UNCHANGED <<script, started, pollVars, mintArgs, lookupVars, helperVars>>

\* the burn submission settles: its transaction identifier, or an error;
\* sendTransaction returns the hash of the accepted transaction,
\* sendAndConfirm the signature of the confirmed one
BurnSettled ==
  /\ pc = "burn_sent"
  /\ \/ \E tx \in TxIds :
          /\ burnTx' = tx
          /\ completed' = Append(completed, "burn")
          /\ txs' = Settle(txs, IF script \in BaseSource THEN "accepted" ELSE "confirmed")
          /\ pc' = "poll"
          /\ UNCHANGED <<exitCode, error>>
     \/ /\ txs' = Settle(txs, "rejected")
        /\ Fail("burn")
        /\ UNCHANGED <<burnTx, completed>>
  /\ UNCHANGED <<script, started, pollVars, mintArgs, lookupVars, helperVars>>

\* retrieveAttestation(srcTxHash), up to the loop: the url is built once
RetrieveAttestation ==
  /\ pc = "poll"
  /\ started' = Append(started, "poll")
  /\ url' = PollUrl(script, burnTx)
  /\ pc' = "poll_get"
  /\ UNCHANGED <<script, completed, burnTx, requests, requestKeys, responses, sleeps,
                 served, attestation, mintArgs, exitCode, txs, error, lookupVars,
                 helperVars>>

\* axios.get(url) is issued
PollRequest ==
  /\ pc = "poll_get"
  /\ requests' = IF requests <= MaxAttempts THEN requests + 1 ELSE requests
  /\ requestKeys' = requestKeys \cup {url}
  /\ pc' = "poll_await"
  /\ UNCHANGED <<script, started, completed, burnTx, url, responses, sleeps, served,
                 attestation, mintArgs, exitCode, txs, error, lookupVars, helperVars>>

\* return response.data.messages[0]
ReturnEntry(answer) ==
  /\ attestation' = FirstMessage(Render(answer))
  /\ served' = [message |-> answer.messages[1].message,
                attestation |-> answer.messages[1].attestation]
  /\ completed' = Append(completed, "poll")
  /\ pc' = "mint"
  /\ UNCHANGED <<sleeps, requests, exitCode, error>>

\* a catch handler that repeats the request at once, before the wait
RetryAtOnceAndIn5s ==
  /\ sleeps' = IF requests <= MaxAttempts THEN Append(sleeps, PollDelayMs) ELSE sleeps
  /\ requests' = IF requests <= MaxAttempts THEN requests + 1 ELSE requests
  /\ pc' = "poll_sleep"
  /\ UNCHANGED <<completed, attestation, served, exitCode, error>>

\* a loop that gives up after two attempts
RetryIn5sAtMostTwice ==
  IF requests >= 2
  THEN Fail("poll") /\ UNCHANGED <<completed, attestation, served, requests, sleeps>>
  ELSE /\ sleeps' = Append(sleeps, PollDelayMs)
       /\ pc' = "poll_sleep"
       /\ UNCHANGED <<completed, attestation, served, requests, exitCode, error>>

\* not complete, or the request failed: setTimeout(resolve, 5000)
RetryIn5s ==
  /\ sleeps' = IF requests <= MaxAttempts THEN Append(sleeps, PollDelayMs) ELSE sleeps
  /\ pc' = "poll_sleep"
  /\ UNCHANGED <<completed, attestation, served, requests, exitCode, error>>

\* a loop without the try/catch: a failed request rejects retrieveAttestation
PollResponseWithoutCatch ==
  /\ pc = "poll_await"
  /\ \E answer \in AnswersTo(requests) :
       /\ responses' = IF requests <= MaxAttempts THEN Append(responses, Render(answer))
                       ELSE responses
       /\ IF answer.kind \in {"network_error", "http_error"}
          THEN Fail("poll") /\ UNCHANGED <<completed, attestation, served, requests, sleeps>>
          ELSE IF IsComplete(Render(answer)) THEN ReturnEntry(answer) ELSE RetryIn5s
  /\ UNCHANGED <<script, started, burnTx, url, requestKeys, mintArgs, txs, lookupVars,
                 helperVars>>

\* the request settles: one pass of the loop body of retrieveAttestation
PollResponse ==
  /\ pc = "poll_await"
  /\ \E answer \in AnswersTo(requests) :
       /\ responses' = IF requests <= MaxAttempts THEN Append(responses, Render(answer))
                       ELSE responses
       /\ IF IsComplete(Render(answer)) THEN ReturnEntry(answer) ELSE RetryIn5s
  /\ UNCHANGED <<script, started, burnTx, url, requestKeys, mintArgs, txs, lookupVars,
                 helperVars>>

\* a loop that starts over from the burn after a wait, once
PollTimerFromTheBurn ==
  /\ pc = "poll_sleep"
  /\ pc' = IF Submitted(txs, "burn") < 2 /\ script \in BaseSource THEN "burn"
           ELSE "poll_get"
  /\ UNCHANGED <<script, started, completed, burnTx, pollVars, mintArgs, exitCode, txs,
                 error, lookupVars, helperVars>>

\* the 5-second timer fires and the loop goes round
PollTimer ==
  /\ pc = "poll_sleep"
  /\ pc' = "poll_get"
  /\ UNCHANGED <<script, started, completed, burnTx, pollVars, mintArgs, exitCode, txs,
                 error, lookupVars, helperVars>>

\* the script's copy of decodeEnvelope
DecodeEnvelope(s, str) ==
  IF s = "base_to_starknet" THEN decodeEnvelopeBase(str) ELSE decodeEnvelopeSolana(str)

\* mintOnStarknet(attestation), up to starknetAccount.execute([call])
MintOnStarknet ==
  /\ pc = "mint" /\ script \in StarknetDestination
  /\ started' = Append(started, "mint")
  /\ LET messageBytes == DecodeEnvelope(script, attestation.message)
         attestationBytes == DecodeEnvelope(script, attestation.attestation)
         messageCalldata == bytesToByteArrayCalldata(messageBytes.bytes)
         attestationCalldata == bytesToByteArrayCalldata(attestationBytes.bytes)
     IN  IF messageBytes.ok /\ attestationBytes.ok
            /\ messageCalldata.ok /\ attestationCalldata.ok
         THEN /\ mintArgs' = [kind |-> "receive_message", message |-> <<>>,
                              attestation |-> <<>>,
                              calldata |-> messageCalldata.calldata
                                           \o attestationCalldata.calldata]
              /\ txs' = Append(txs, Tx("mint", NoRequest))
              /\ pc' = "mint_sent"
              /\ UNCHANGED <<exitCode, error>>
         ELSE Fail("mint") /\ UNCHANGED <<mintArgs, txs>>
  /\ UNCHANGED <<script, completed, burnTx, pollVars, lookupVars, helperVars>>

\* mintUSDC(attestation), up to sepoliaClient.sendTransaction
MintUSDC ==
  /\ pc = "mint" /\ script = "base_to_ethereum"
  /\ started' = Append(started, "mint")
  /\ mintArgs' = [kind |-> "receiveMessage", message |-> attestation.message,
                  attestation |-> attestation.attestation, calldata |-> <<>>]
  /\ txs' = Append(txs, Tx("mint", NoRequest))
  /\ pc' = "mint_sent"
  /\ UNCHANGED <<script, completed, burnTx, pollVars, exitCode, error, lookupVars,
                 helperVars>>

\* the mint submission settles; mintUSDC returns on the transaction hash and
\* main ends, mintOnStarknet goes on to provider.waitForTransaction
MintSettled ==
  /\ pc = "mint_sent"
  /\ \E ok \in BOOLEAN :
       IF ~ok
       THEN /\ txs' = Settle(txs, "rejected")
            /\ Fail("mint")
            /\ UNCHANGED completed
       ELSE /\ txs' = Settle(txs, "accepted")
            /\ IF script \in StarknetDestination
               THEN pc' = "mint_wait" /\ UNCHANGED <<completed, exitCode, error>>
               ELSE /\ completed' = Append(completed, "mint")
                    /\ pc' = "done"
                    /\ exitCode' = <<0>>
                    /\ UNCHANGED error
  /\ UNCHANGED <<script, started, burnTx, pollVars, mintArgs, lookupVars, helperVars>>

\* provider.waitForTransaction settles
MintConfirmed ==
  /\ pc = "mint_wait"
  /\ \E ok \in BOOLEAN :
       IF ok
       THEN /\ completed' = Append(completed, "mint")
            /\ txs' = Settle(txs, "confirmed")
            /\ pc' = "done"
            /\ exitCode' = <<0>>
            /\ UNCHANGED error
       ELSE /\ txs' = Settle(txs, "reverted")
            /\ Fail("mint")
            /\ UNCHANGED completed
  /\ UNCHANGED <<script, started, burnTx, pollVars, mintArgs, lookupVars, helperVars>>

\* Ethereum includes the accepted mint transaction in a block, or drops it;
\* mintUSDC does not look at it again
EthereumSettlesMint ==
  /\ script = "base_to_ethereum"
  /\ txs # <<>>
  /\ txs[Len(txs)].stage = "mint" /\ txs[Len(txs)].status = "accepted"
  /\ \E status \in {"confirmed", "reverted"} : txs' = Settle(txs, status)
  /\ UNCHANGED <<script, pc, started, completed, burnTx, pollVars, mintArgs, exitCode,
                 error, lookupVars, helperVars>>

Next ==
  \/ LoadConfig
  \/ GetIdls
  \/ ApproveUSDC
  \/ ApproveSettled
  \/ BurnUSDC
  \/ DepositForBurnOnSolana
  \/ GetRemoteTokenMessengerAccount
  \/ RemoteTokenMessengerNotFound
  \/ SendDepositForBurn
  \/ BurnSettled
  \/ RetrieveAttestation
  \/ PollRequest
  \/ PollResponse
  \/ PollTimer
  \/ MintOnStarknet
  \/ MintUSDC
  \/ MintSettled
  \/ MintConfirmed
  \/ EthereumSettlesMint

Spec == Init /\ [][Next]_vars

\* the steps of the Solana script
NextSolana ==
  \/ LoadConfig
  \/ GetIdls
  \/ DepositForBurnOnSolana
  \/ GetRemoteTokenMessengerAccount
  \/ RemoteTokenMessengerNotFound
  \/ SendDepositForBurn
  \/ BurnSettled
  \/ RetrieveAttestation
  \/ PollRequest
  \/ PollResponse
  \/ PollTimer
  \/ MintOnStarknet
  \/ MintSettled
  \/ MintConfirmed

SpecOverrides == InitOverrides /\ [][NextSolana]_vars

\* the script's own steps are taken when they can be: a set timer fires and
\* the loop issues its next request; the service need not answer
FairSpec == Spec /\ WF_vars(PollTimer) /\ WF_vars(PollRequest)

---------------------------------------------------------------------------
(* Claims about the helpers *)

Applied(h) == helper = h /\ result # <<>>

\* the number a BigInt stands for (small values only)
RECURSIVE NatOf(_)
NatOf(felt) ==
  IF felt = <<>> THEN 0 ELSE 16 * NatOf(SubSeq(felt, 1, Len(felt) - 1)) + felt[Len(felt)]

\* the n bytes of a field element, most significant first (Cairo's bytes31
\* for n = 31, the pending word for n < 31)
FeltToBytes(felt, n) ==
  LET digits == Repeat(0, 2 * n - Len(felt)) \o felt
  IN  [i \in 1..n |-> 16 * digits[2 * i - 1] + digits[2 * i]]

\* the bytes of a ByteArray given as calldata [len, data..., pending_word, pending_len]
ByteArrayToBytes(calldata) ==
  LET count == NatOf(calldata[1])
      pendingLen == NatOf(calldata[count + 3])
  IN  [i \in 1..(ChunkBytes * count + pendingLen) |->
         LET c == (i - 1) \div ChunkBytes
             j == ((i - 1) % ChunkBytes) + 1
         IN  IF c < count THEN FeltToBytes(calldata[c + 2], ChunkBytes)[j]
             ELSE FeltToBytes(calldata[count + 2], pendingLen)[j]]

\* C8: for a byte sequence of length N, bytesToByteArrayCalldata returns
\* chunkCount + 3 field elements [chunkCount, full chunks..., trailing chunk,
\* N mod 31] with chunkCount = floor(N / 31); every full chunk fits 31 bytes,
\* the trailing one N mod 31 bytes, and reassembling them gives the N bytes back.
C8_CalldataRoundTrip ==
  Applied("bytesToByteArrayCalldata") =>
    LET r == result[1]
        N == Len(arg)
        chunkCount == N \div 31
    IN  /\ r.ok
        /\ Len(r.calldata) = chunkCount + 3
        /\ NatOf(r.calldata[1]) = chunkCount
        /\ NatOf(r.calldata[chunkCount + 3]) = N % 31
        /\ \A i \in 1..chunkCount :
             /\ Len(r.calldata[i + 1]) <= 2 * 31
             /\ FeltToBytes(r.calldata[i + 1], 31) = SubSeq(arg, 31 * (i - 1) + 1, 31 * i)
        /\ Len(r.calldata[chunkCount + 2]) <= 2 * (N % 31)
        /\ ByteArrayToBytes(r.calldata) = arg

\* C8 witness: 62 bytes (two full chunks, an empty trailing chunk) whose
\* chunks start with zero bytes have been encoded
C8_Witness ==
  /\ Applied("bytesToByteArrayCalldata")
  /\ Len(arg) = 62
  /\ arg[1] = 0 /\ arg[32] = 0 /\ arg[62] # 0
  /\ Len(result[1].calldata) = 5

\* C9: decodeEnvelope of a payload's hex encoding and decodeEnvelope of its
\* base64 encoding are the same bytes, in both copies of the helper
C9_EncodingFormInvariance ==
  (Applied("decodeEnvelopeBase") \/ Applied("decodeEnvelopeSolana")) =>
    /\ result[1].hex.ok
    /\ result[1].base64.ok
    /\ result[1].hex.bytes = result[1].base64.bytes

\* the hex digits of a bytes32 string "0x..."
Bytes32Digits(str) == SliceFrom(str, 2)

\* C10: the bytes32 helpers return 0x and 64 hex digits (32 bytes): for a
\* 20-byte EVM address the first 12 bytes are zero and the last 20 bytes are
\* the address; for a recipient of at most 32 bytes toBytes32 returns the
\* recipient's digits at the end, zeros before them
C10_Bytes32LeftPad ==
  /\ Applied("toBytes32Address") =>
       LET bytes == BufferFromHex(Bytes32Digits(result[1]))
       IN  /\ StartsWith0x(result[1])
           /\ Len(result[1]) = 66
           /\ Len(bytes) = 32
           /\ \A i \in 1..12 : bytes[i] = 0
           /\ SubSeq(bytes, 13, 32) = BufferFromHex(SliceFrom(arg, 2))
  /\ (Applied("toBytes32") /\ Len(Strip0x(arg)) <= 64) =>
       LET digits == Bytes32Digits(result[1])
           clean == Strip0x(arg)
           bytes == BufferFromHex(digits)
       IN  /\ StartsWith0x(result[1])
           /\ Len(digits) = 64
           /\ Len(bytes) = 32
           /\ SubSeq(digits, 64 - Len(clean) + 1, 64) = clean
           /\ \A i \in 1..(64 - Len(clean)) : digits[i] = "0"
           /\ arg \in EvmAddresses =>
                /\ \A i \in 1..12 : bytes[i] = 0
                /\ SubSeq(bytes, 13, 32) = BufferFromHex(clean)

\* C10 witness: toBytes32 has padded a 20-byte EVM address
C10_Witness ==
  /\ Applied("toBytes32")
  /\ arg \in EvmAddresses
  /\ Len(result[1]) = 66

---------------------------------------------------------------------------
(* Claims about the runs of the scripts *)

Last(s) == s[Len(s)]

IsPrefix(p, s) == Len(p) <= Len(s) /\ SubSeq(s, 1, Len(p)) = p

In(x, s) == \E i \in 1..Len(s) : s[i] = x

\* the stages of a script, in the order of the specification
StageOrder(s) ==
  IF s = "solana_to_starknet" THEN <<"burn", "poll", "mint">>
  ELSE <<"approve", "burn", "poll", "mint">>

Polling == {"poll_get", "poll_await", "poll_sleep"}

\* the first entry of a response as the specification reads it
FirstEntryComplete(response) ==
  /\ response.kind = "ok"
  /\ Len(response.messages) >= 1
  /\ response.messages[1].status = "complete"

\* retrieveAttestation has returned
PollReturned == In("poll", completed)

StagesInOrder ==
  /\ IsPrefix(started, StageOrder(script))
  /\ IsPrefix(completed, started)
  /\ Len(started) <= Len(completed) + 1

\* a step starts no stage, or the next stage after all started ones completed
StartsNextStage ==
  \/ started' = started
  \/ /\ completed = started
     /\ Len(started) < Len(StageOrder(script))
     /\ started' = Append(started, StageOrder(script)[Len(started) + 1])

\* a step completes no stage, or the one stage that is under way
CompletesStartedStage ==
  \/ completed' = completed
  \/ /\ Len(started) = Len(completed) + 1
     /\ completed' = started
     /\ started' = started

\* C1: the stages start in the order approve, burn, poll, mint (burn, poll,
\* mint for the Solana script); a stage starts only when every stage before
\* it has completed, and a stage once started is never started again.
C1_StageOrder ==
  /\ []StagesInOrder
  /\ [][StartsNextStage]_vars
  /\ [][CompletesStartedStage]_vars

\* C1 witness: a Base run has gone through its four stages in order
C1_Witness ==
  /\ pc = "done"
  /\ started = <<"approve", "burn", "poll", "mint">>
  /\ completed = started

\* C2: retrieveAttestation returns only on a response whose first entry has
\* status complete, and returns that entry; any other response (first entry
\* absent, pending, a later entry complete) causes no return; the mint stage
\* starts only with a complete attestation message.
C2_ReturnsOnlyFirstComplete ==
  /\ PollReturned =>
       /\ attestation.status = "complete"
       /\ requests <= MaxAttempts =>
            /\ Len(responses) >= 1
            /\ FirstEntryComplete(Last(responses))
            /\ attestation = Last(responses).messages[1]
  /\ ~PollReturned => attestation = NoEntry
  /\ \A i \in 1..Len(responses) :
       ~FirstEntryComplete(responses[i]) => ~(PollReturned /\ i = Len(responses))
  /\ In("mint", started) => (PollReturned /\ attestation.status = "complete")

\* C2 witness: the poller went past a response whose second entry was
\* complete, returned on a later one, and the mint stage has started
C2_Witness ==
  /\ In("mint", started)
  /\ Len(responses) >= 2
  /\ Len(responses[1].messages) = 2
  /\ responses[1].messages[1].status = "pending"
  /\ responses[1].messages[2].status = "complete"

\* C3: when the first k responses are not complete (pending) and the
\* (k+1)-th is complete, exactly k+1 requests are issued in the whole run
\* and the value returned is the message entry of the (k+1)-th response.
C3_PendingThenComplete ==
  /\ Len(responses) <= requests
  /\ pc \in {"poll_get", "poll_sleep"} => Len(responses) = Min(requests, MaxAttempts)
  /\ PollReturned =>
       /\ requests = Len(responses)
       /\ \A i \in 1..(requests - 1) : ~FirstEntryComplete(responses[i])
       /\ FirstEntryComplete(responses[requests])
       /\ attestation.message = responses[requests].messages[1].message
       /\ attestation.attestation = responses[requests].messages[1].attestation

\* C3 witness: pending twice, then complete: three requests, and the run ended
C3_Witness ==
  /\ pc = "done"
  /\ requests = 3
  /\ Len(responses) = 3
  /\ \A i \in 1..2 : /\ responses[i].kind = "ok"
                     /\ Len(responses[i].messages) = 1
                     /\ responses[i].messages[1].status = "pending"
  /\ attestation = responses[3].messages[1]

FailedKinds == {"network_error", "http_error", "malformed"}

\* every attempt short of complete has its wait, and every wait is 5000 ms;
\* a run that failed did not fail in the poll stage
WaitsAreFiveSeconds ==
  /\ \A i \in 1..Len(sleeps) : sleeps[i] = 5000
  /\ Len(sleeps) <= Len(responses)
  /\ \A i \in 1..Len(responses) : ~FirstEntryComplete(responses[i]) => i <= Len(sleeps)
  /\ pc = "failed" => (started = <<>> \/ Last(started) # "poll")

\* the step that receives a failed request sets the 5000 ms timer and ends nothing
FailedRequestWaits ==
  (/\ pc = "poll_await"
   /\ Len(responses') = Len(responses) + 1
   /\ Last(responses').kind \in FailedKinds)
  => (/\ pc' = "poll_sleep"
      /\ sleeps' = Append(sleeps, 5000)
      /\ exitCode' = <<>>
      /\ attestation' = attestation)

\* after the wait comes the next request, and only one
WaitThenRequest ==
  /\ pc = "poll_sleep" => (pc' = "poll_get" /\ requests' = requests)
  /\ pc = "poll_get" =>
       (pc' = "poll_await" /\ requests' = Min(requests + 1, MaxAttempts + 1))

\* C4: a failed request does not end the poller or the run; like a pending
\* response it is followed by one wait of 5000 ms and then a new request,
\* and every wait is 5000 ms.
C4_FailedRequestRetried ==
  /\ []WaitsAreFiveSeconds
  /\ [][FailedRequestWaits]_vars
  /\ [][WaitThenRequest]_vars

\* C4 witness: a network failure was followed by a 5000 ms wait and then by
\* the second request
C4_Witness ==
  /\ pc = "poll_await"
  /\ requests = 2
  /\ Len(responses) = 1
  /\ responses[1].kind = "network_error"
  /\ sleeps = <<5000>>

\* a step of the loop stays in the loop or returns a complete entry
LeavesLoopOnlyComplete ==
  pc \in Polling =>
    \/ pc' \in Polling
    \/ /\ pc = "poll_await"
       /\ pc' = "mint"
       /\ attestation'.status = "complete"

\* C5: the poller has no attempt bound or timeout: it leaves the loop only
\* by returning on a complete first entry; after any attempt that is not
\* complete the next request is issued; while it polls the process has not
\* exited and the mint stage has not started.
C5_NoAttemptBound ==
  /\ [][LeavesLoopOnlyComplete]_vars
  /\ [](pc \in Polling => (exitCode = <<>> /\ ~In("mint", started)))
  /\ (pc = "poll_sleep") ~> (pc = "poll_await")

\* C5 witness: more requests than the model records have been issued and
\* none of the recorded ones was complete
C5_Witness ==
  /\ pc = "poll_await"
  /\ requests = MaxAttempts + 1
  /\ Len(responses) = MaxAttempts
  /\ \A i \in 1..Len(responses) : ~FirstEntryComplete(responses[i])

\* C6: the mint call receives the polled message and attestation unmodified:
\* receiveMessage gets the two returned values as they are; receive_message
\* gets the byte-array encoding of the message bytes followed by that of the
\* attestation bytes, each decoding back to the payload the service sent.
C6_MintReceivesPolledPayload ==
  /\ mintArgs.kind = "receiveMessage" =>
       /\ mintArgs.message = attestation.message
       /\ mintArgs.attestation = attestation.attestation
  /\ mintArgs.kind = "receive_message" =>
       LET calldata == mintArgs.calldata
           n1 == NatOf(calldata[1]) + 3
           first == SubSeq(calldata, 1, n1)
           second == SubSeq(calldata, n1 + 1, Len(calldata))
       IN  /\ Len(calldata) >= n1 + 3
           /\ Len(second) = NatOf(second[1]) + 3
           /\ ByteArrayToBytes(first) = served.message
           /\ ByteArrayToBytes(second) = served.attestation

\* C7: every attestation request is keyed by the script's source domain (6
\* for the Base scripts, 5 for the Solana script, never the destination's)
\* and by the transaction identifier the burn of this run returned; all
\* requests of a run have the same key.
C7_RequestKey ==
  /\ requestKeys \subseteq
       {[domain |-> IF script = "solana_to_starknet" THEN 5 ELSE 6,
         transactionHash |-> burnTx]}
  /\ requests >= 1 => (requestKeys # {} /\ burnTx \in TxIds /\ In("burn", completed))
  /\ \A k \in requestKeys : k.domain \notin {0, 25}

\* C7 witness: the Solana script has issued three requests for the burn 0xBB
C7_Witness ==
  /\ script = "solana_to_starknet"
  /\ requests = 3
  /\ requestKeys = {[domain |-> 5, transactionHash |-> "0xBB"]}

---------------------------------------------------------------------------
(* Submission failures, exit codes and configuration *)

\* a transaction the chain refused at submission or reported as failed
Refused == {"rejected", "reverted"}

\* C11: when the submission of the approval, the burn or the mint is
\* rejected the run aborts: the rejected transaction is the last one the run
\* sent on any chain (no retry, no compensating or rollback transaction), its
\* stage was submitted once and is the last stage started, and the process
\* has ended with the error of that stage; a mint that fails after the burn
\* went through leaves the burn as it is, with nothing sent after the mint.
C11_SubmissionErrorAborts ==
  \A i \in 1..Len(txs) :
     /\ txs[i].status \in Refused =>
          /\ i = Len(txs)
          /\ Submitted(txs, txs[i].stage) = 1
          /\ Last(started) = txs[i].stage
     /\ txs[i].status = "rejected" =>
          /\ ~In(txs[i].stage, completed)
          /\ pc = "failed"
          /\ error = txs[i].stage
          /\ exitCode = <<1>>

\* C11 witness: the Solana burn was confirmed, the mint was rejected, and
\* the run has ended with these two transactions only
C11_Witness ==
  /\ script = "solana_to_starknet"
  /\ Len(txs) = 2
  /\ txs[1].stage = "burn" /\ txs[1].status = "confirmed"
  /\ txs[2].stage = "mint" /\ txs[2].status = "rejected"
  /\ pc = "failed"

\* C12: the process exits with code 0 exactly when every stage of the script
\* has completed, in order and without an error, and with code 1 exactly
\* when an error escaped a stage or the checks of the configuration; a stage
\* has completed when the promise main() awaits has resolved.
C12_ExitCodes ==
  /\ exitCode \in {<<>>, <<0>>, <<1>>}
  /\ exitCode = <<0>> <=> completed = StageOrder(script)
  /\ exitCode = <<0>> => (error = Null /\ pc = "done" /\ In("mint", completed))
  /\ exitCode = <<1>> <=> error # Null
  /\ error # Null => (pc = "failed" /\ completed # StageOrder(script))
  /\ error \in {Null, "config", "idl", "approve", "burn", "poll", "mint"}

\* C12 witness: a run of the Base to Starknet script that burned, polled
\* twice or more and ended with code 1 on a failed mint, and none with code 0
C12_Witness ==
  /\ script = "base_to_starknet"
  /\ completed = <<"approve", "burn", "poll">>
  /\ requests >= 2
  /\ error = "mint"
  /\ exitCode = <<1>>

\* a credential or RPC setting the run needs is missing: the private key of
\* the source chain in every script, and the Starknet account address,
\* private key and RPC in the two scripts that mint on Starknet
MissingRequired ==
  \/ script \in BaseSource /\ Falsy(env.PRIVATE_KEY)
  \/ script = "solana_to_starknet" /\ Falsy(env.SOLANA_PRIVATE_KEY_B58)
  \/ /\ script \in StarknetDestination
     /\ \/ Falsy(env.STARKNET_ACCOUNT_ADDRESS)
        \/ Falsy(env.STARKNET_PRIVATE_KEY)
        \/ Falsy(env.STARKNET_RPC)

\* C13: with a required credential or RPC setting missing the script fails
\* when it is loaded and before any stage runs: no stage starts, no approval,
\* burn or mint is submitted and no attestation request is issued, and the
\* process ends with the configuration error.
C13_MissingConfigFailsAtStartup ==
  MissingRequired =>
    /\ pc \in {"load", "failed"}
    /\ started = <<>>
    /\ txs = <<>>
    /\ requests = 0
    /\ pc = "failed" => (error = "config" /\ exitCode = <<1>>)

\* C14: the run reports success (exit code 0, after the finalizer's log line
\* and "Transfer complete") only when the mint transaction, the last one
\* sent, has been confirmed on the destination chain.
C14_SuccessOnlyAfterConfirmation ==
  exitCode = <<0>> =>
    /\ txs # <<>>
    /\ Last(txs).stage = "mint"
    /\ Last(txs).status = "confirmed"

\* C15: every burn is called with the transfer request fixed at load time,
\* unchanged, whose amount and maxFee are separate non-negative integers
\* with maxFee <= amount and whose minFinalityThreshold is 1000 or 2000.
C15_TransferRequest ==
  \A i \in 1..Len(txs) :
     txs[i].stage = "burn" =>
       /\ txs[i].request = request
       /\ request = TransferRequest(script, env)
       /\ request.amount >= 0 /\ request.maxFee >= 0
       /\ request.maxFee <= request.amount
       /\ request.minFinalityThreshold \in {1000, 2000}

---------------------------------------------------------------------------
(* The remote token messenger lookup and the submissions of a run *)

\* C16: getRemoteTokenMessengerAccount queries the configured Solana RPC
\* endpoint first; it queries the public devnet endpoint second and last, and
\* only when the configured endpoint is another one and its query failed (the
\* call rejected or its account did not decode, both caught and logged as a
\* failed getProgramAccounts) or returned no account; the account it returns
\* is the one of the first query that succeeded with an account, after which
\* no endpoint is queried; when every candidate was queried without one the
\* lookup throws, the run ends with code 1 and no burn was submitted, and a
\* burn is submitted only after the lookup returned an account.
C16_RemoteTokenMessengerLookup ==
  /\ Len(queries) <= 2
  /\ queries # <<>> => queries[1].endpoint = SOLANA_RPC(env)
  /\ Len(queries) = 2 =>
       /\ queries[2].endpoint = PublicDevnet
       /\ SOLANA_RPC(env) # PublicDevnet
       /\ queries[1].outcome \in {"rejects", "undecodable", "empty"}
  /\ \A i \in 1..Len(queries) :
       queries[i].outcome = "account" =>
         (i = Len(queries) /\ remoteTokenMessenger = <<queries[i].endpoint>>)
  /\ remoteTokenMessenger # <<>> => Last(queries).outcome = "account"
  /\ (queries # <<>> /\ remoteTokenMessenger = <<>> /\ pc # "burn_lookup") =>
       /\ Len(queries) = IF SOLANA_RPC(env) = PublicDevnet THEN 1 ELSE 2
       /\ pc = "failed" /\ error = "burn" /\ exitCode = <<1>>
       /\ txs = <<>>
  /\ (script = "solana_to_starknet" /\ txs # <<>>) => remoteTokenMessenger # <<>>

\* C16 witness: the configured endpoint's query was rejected, the public
\* endpoint returned the account, and the burn was submitted
C16_Witness ==
  /\ queries = <<[endpoint |-> OwnRpc, outcome |-> "rejects"],
                 [endpoint |-> PublicDevnet, outcome |-> "account"]>>
  /\ remoteTokenMessenger = <<PublicDevnet>>
  /\ Submitted(txs, "burn") = 1

\* C17: in one run the approval, the burn and the mint are each submitted at
\* most once, in this order, whatever the attestation service answers and
\* however often the poll is repeated; one run burns at most once, the
\* configured amount, and mints at most once.
C17_SubmittedAtMostOnce ==
  /\ \A stage \in {"approve", "burn", "mint"} : Submitted(txs, stage) <= 1
  /\ \A i \in 1..Len(txs) : \A j \in 1..Len(txs) :
       (i < j /\ txs[j].stage = "burn") => txs[i].stage = "approve"
  /\ \A i \in 1..Len(txs) :
       /\ txs[i].stage \in {"approve", "burn", "mint"}
       /\ txs[i].stage = "burn" => txs[i].request.amount = request.amount
       /\ txs[i].stage = "mint" => i = Len(txs)

\* C17 witness: the poll met a failed request and a pending answer before
\* the complete one, and the run holds one burn and one mint
C17_Witness ==
  /\ requests = MaxAttempts
  /\ \E i \in 1..Len(responses) : responses[i].kind = "network_error"
  /\ \E i \in 1..Len(responses) :
       responses[i].kind = "ok" /\ ~FirstEntryComplete(responses[i])
  /\ Submitted(txs, "burn") = 1
  /\ Submitted(txs, "mint") = 1

=============================================================================
